---------------------------- MODULE Spec2Model ----------------------------
(* Business Crawler (src/main.py): the per-query pipeline of main(), the    *)
(* content extractor scrape_content and the filename sanitizer              *)
(* sanitize_filename.                                                       *)
(*                                                                          *)
(* Strings are sequences of one-character strings.  An optional value       *)
(* (Python's `str | None`) is a sequence of length 0 (None) or 1 (the       *)
(* value).  The collaborators (search, fetch, structured extraction,        *)
(* paragraph scan, entity tagger, file system) are the environment: their   *)
(* answers are drawn from bounded sets in the actions that call them.       *)
(*                                                                          *)
(* main() is modelled as its control flow reads: `args` stands for the      *)
(* parsed command line (the source never binds it) and the two log          *)
(* messages whose f-strings are left open (lines 271 and 301) are taken as  *)
(* plain log calls inside their try blocks.                                 *)
EXTENDS Integers, Sequences, FiniteSets, TLC

VARIABLES
    \* ---- main(): program state
    queries,         \* args.queries
    blacklist,       \* blacklist: Set[str]
    pc,              \* position in main()
    qi,              \* index of the query the outer for loop is at
    search_results,  \* search_results of the current query
    ri,              \* index of the result the inner for loop is at
    query_data,      \* query_data: records of the current query
    failed_urls,     \* failed_urls of the current query
    all_data,        \* all_data: records of all queries
    domain_stats,    \* domain_stats: insertion-ordered dict domain -> counts
    writes,          \* every output write attempted, in order
    \* ---- main(): history of what the collaborators answered
    last,            \* what the latest iteration of the current inner loop met
    attempted,       \* per domain, the number of results processed
    first_seen,      \* domains in the order they were first processed
    searched,        \* queries handed to search_links, in order
    qlog,            \* per finished query: what it produced
    \* ---- a call of a pure function (scrape_content, sanitize_filename)
    arg,             \* the arguments of the call
    ret              \* what the call returned, one entry per call

vars == <<queries, blacklist, pc, qi, search_results, ri, query_data,
          failed_urls, all_data, domain_stats, writes, last, attempted,
          first_seen, searched, qlog, arg, ret>>

-----------------------------------------------------------------------------
(* Bounds of the model *)

MaxQueries == 2
MaxResults == 3
MaxIOFailures == 1
MaxTextLen == 2
MaxParas == 2
MaxMinWords == 2
MaxNameLen == 3

(* Program constants *)

MIN_WORDS_FOR_CONTENT == 50

-----------------------------------------------------------------------------
(* Optional values and strings *)

None == <<>>
Some(x) == <<x>>

Whitespace == {" ", "\n"}

\* bool(s) of a Python string: the empty string is falsy.
Truthy(s) == s # <<>>

\* len(text.split()): the number of maximal runs of non-whitespace
\* characters, counted by the positions where such a run starts.
WordCount(text) ==
    Cardinality({i \in 1..Len(text) :
                    /\ text[i] \notin Whitespace
                    /\ (i = 1 \/ text[i - 1] \in Whitespace)})

\* "\n".join(parts)
RECURSIVE JoinLines(_)
JoinLines(parts) ==
    IF parts = <<>> THEN <<>>
    ELSE IF Len(parts) = 1 THEN parts[1]
    ELSE parts[1] \o <<"\n">> \o JoinLines(Tail(parts))

\* [x for x in s if x]: the non-empty members of a sequence of strings.
RECURSIVE NonEmpty(_)
NonEmpty(parts) ==
    IF parts = <<>> THEN <<>>
    ELSE IF Truthy(parts[1]) THEN <<parts[1]>> \o NonEmpty(Tail(parts))
    ELSE NonEmpty(Tail(parts))

\* A text of n words, "w w ... w".
Words(n) == [i \in 1..(2 * n - 1) |-> IF i % 2 = 1 THEN "w" ELSE " "]

-----------------------------------------------------------------------------
(* scrape_content *)

\* What the collaborators of scrape_content answer for one URL:
\* downloaded is bool(fetch_url(url)), extracted is extract(downloaded, ...)
\* (a text or None) and paragraphs is [p.get_text() for p in find_all("p")].
Page(downloaded, extracted, paragraphs) ==
    [downloaded |-> downloaded, extracted |-> extracted,
     paragraphs |-> paragraphs]

\* "\n".join(p.get_text() for p in soup.find_all("p") if p.get_text())
FallbackText(page) == JoinLines(NonEmpty(page.paragraphs))

\* `text and len(text.split()) >= min_words`
Accepted(text, min_words) == Truthy(text) /\ WordCount(text) >= min_words

\* The fallback tried first.
scrape_content_FallbackFirst(page, min_words) ==
    IF ~page.downloaded THEN None
    ELSE IF Accepted(FallbackText(page), min_words)
         THEN Some(FallbackText(page))
    ELSE IF page.extracted # None /\ Accepted(page.extracted[1], min_words)
         THEN Some(page.extracted[1])
    ELSE None

scrape_content(page, min_words) ==
    IF ~page.downloaded THEN None
    ELSE IF page.extracted # None /\ Accepted(page.extracted[1], min_words)
         THEN Some(page.extracted[1])
    ELSE IF Accepted(FallbackText(page), min_words)
         THEN Some(FallbackText(page))
    ELSE None

-----------------------------------------------------------------------------
(* sanitize_filename *)

Letters == {"a","b","c","d","e","f","g","h","i","j","k","l","m","n","o","p",
            "q","r","s","t","u","v","w","x","y","z",
            "A","B","C","D","E","F","G","H","I","J","K","L","M","N","O","P",
            "Q","R","S","T","U","V","W","X","Y","Z"}
Digits == {"0","1","2","3","4","5","6","7","8","9"}

\* The characters the class [^a-zA-Z0-9_] does not match.
SafeChars == Letters \cup Digits \cup {"_"}

\* The class with a + quantifier: a run of matches becomes one underscore.
sanitize_filename_Collapsing(name) ==
    LET kept == {i \in 1..Len(name) :
                    \/ name[i] \in SafeChars
                    \/ i = 1
                    \/ name[i - 1] \in SafeChars}
        Nth(k) == CHOOSE i \in kept : Cardinality({j \in kept : j <= i}) = k
    IN  [k \in 1..Cardinality(kept) |->
            IF name[Nth(k)] \in SafeChars THEN name[Nth(k)] ELSE "_"]

\* re.sub(r"[^a-zA-Z0-9_]", "_", name): each match is one character.
sanitize_filename(name) ==
    [i \in 1..Len(name) |-> IF name[i] \in SafeChars THEN name[i] ELSE "_"]

-----------------------------------------------------------------------------
(* domain_stats: a defaultdict, which keeps its keys in insertion order *)

HasKey(stats, d) == \E i \in 1..Len(stats) : stats[i].domain = d

\* domain_stats[d]: a missing key is inserted with {"success": 0, "fail": 0}.
GetOrCreate(stats, d) ==
    IF HasKey(stats, d) THEN stats
    ELSE Append(stats, [domain |-> d, success |-> 0, fail |-> 0])

\* A plain dict in place of the defaultdict: the increment of a domain that
\* has no entry yet is lost.
IncFail_NoDefault(stats, d) ==
    [i \in 1..Len(stats) |->
        IF stats[i].domain = d THEN [stats[i] EXCEPT !.fail = @ + 1]
        ELSE stats[i]]

\* domain_stats[d]["fail"] += 1
IncFail(stats, d) ==
    LET s == GetOrCreate(stats, d)
    IN  [i \in 1..Len(s) |->
            IF s[i].domain = d THEN [s[i] EXCEPT !.fail = @ + 1] ELSE s[i]]

\* A plain dict in place of the defaultdict: the success of a domain that
\* has no entry yet is lost.
IncSuccess_NoDefault(stats, d) ==
    [i \in 1..Len(stats) |->
        IF stats[i].domain = d THEN [stats[i] EXCEPT !.success = @ + 1]
        ELSE stats[i]]

\* domain_stats[d]["success"] += 1
IncSuccess(stats, d) ==
    LET s == GetOrCreate(stats, d)
    IN  [i \in 1..Len(s) |->
            IF s[i].domain = d THEN [s[i] EXCEPT !.success = @ + 1] ELSE s[i]]

\* The counts of domain d; {0, 0} for a domain that was never referenced.
StatOf(stats, d) ==
    IF HasKey(stats, d)
    THEN LET i == CHOOSE j \in 1..Len(stats) : stats[j].domain = d
         IN  [success |-> stats[i].success, fail |-> stats[i].fail]
    ELSE [success |-> 0, fail |-> 0]

\* sorted(..., key=lambda x: -x[1]["success"]) is stable: an item goes after
\* every item already placed whose key is not greater than its own.
\* An unstable sort: an item goes before the items of equal key.
RECURSIVE InsertByKey_Unstable(_, _)
InsertByKey_Unstable(x, placed) ==
    IF placed = <<>> THEN <<x>>
    ELSE IF -placed[1].success < -x.success
         THEN <<placed[1]>> \o InsertByKey_Unstable(x, Tail(placed))
         ELSE <<x>> \o placed

RECURSIVE InsertByKey(_, _)
InsertByKey(x, placed) ==
    IF placed = <<>> THEN <<x>>
    ELSE IF -placed[1].success <= -x.success
         THEN <<placed[1]>> \o InsertByKey(x, Tail(placed))
         ELSE <<x>> \o placed

RECURSIVE SortedFrom(_, _)
SortedFrom(items, placed) ==
    IF items = <<>> THEN placed
    ELSE SortedFrom(Tail(items), InsertByKey(items[1], placed))

SortedBySuccess(stats) == SortedFrom(stats, <<>>)

\* The rows of _domain_stats_summary.csv
SummaryRows(stats) ==
    LET s == SortedBySuccess(stats)
    IN  [i \in 1..Len(s) |->
            [domain |-> s[i].domain, successes |-> s[i].success,
             failures |-> s[i].fail]]

-----------------------------------------------------------------------------
(* The environment of main() *)

SeqsUpTo(S, n) == UNION {[1..k -> S] : k \in 0..n}

\* The i-th query of the command line: "q x", "q xx", ...
Query(i) == <<"q", " ">> \o [j \in 1..i |-> "x"]

Hosts == {"a.com", "b.org"}

\* The lines a blacklist file may hold.
BlacklistLines == {"a.com"}

Urls == {[scheme |-> "https", netloc |-> h, path |-> "/page"] : h \in Hosts}

\* urlparse(url).netloc
Netloc(url) == url.netloc

\* What search_links may return when the searches of the run have returned
\* `sofar` results: the run sees at most MaxResults results in all.
SearchResults(sofar) ==
    SeqsUpTo({[href |-> u, title |-> "Untitled"] : u \in Urls},
             MaxResults - sofar)

RECURSIVE SumOver(_, _)
SumOver(f, S) ==
    IF S = {} THEN 0
    ELSE LET x == CHOOSE x \in S : TRUE IN f[x] + SumOver(f, S \ {x})

\* Pages: fetch fails; structured extraction passes the gate exactly; both
\* stages stay below the gate; only the paragraph fallback passes the gate.
NoPage == Page(FALSE, None, <<>>)
GoodPage == Page(TRUE, Some(Words(MIN_WORDS_FOR_CONTENT)), <<Words(3)>>)
ShortPage ==
    Page(TRUE, Some(Words(MIN_WORDS_FOR_CONTENT - 1)), <<Words(5), Words(5)>>)
FallbackPage ==
    Page(TRUE, Some(Words(MIN_WORDS_FOR_CONTENT - 1)),
         <<Words(MIN_WORDS_FOR_CONTENT), <<>>>>)
Pages == {NoPage, GoodPage, ShortPage, FallbackPage}

\* What the call scrape_content(url) meets: a page, or an exception raised
\* by a collaborator inside it.
ScrapeAnswers ==
    {[raises |-> r, page |-> pg] : r \in {FALSE}, pg \in Pages}
        \cup {[raises |-> TRUE, page |-> NoPage]}

\* extract_entities(content) returns or raises.
AnnotateAnswers == {"ok", "raise"}

Failures(ws) == Cardinality({i \in 1..Len(ws) : ~ws[i].ok})

\* The outcomes of n writes that keep the run within MaxIOFailures.
WriteOutcomes(ws, n) ==
    {oks \in [1..n -> BOOLEAN] :
        Failures(ws) + Cardinality({i \in 1..n : ~oks[i]}) <= MaxIOFailures}

-----------------------------------------------------------------------------
(* main() *)

\* The position after the body of the outer for loop: its next query, or the
\* code after the loop.
NextQuery(i) == IF i + 1 > Len(queries) THEN "merged" ELSE "search"

\* `break` in place of `continue`: a failed search ends the outer loop.
AfterAbandon_Break(i) == "merged"

\* `continue` after a failed or empty search (lines 208 and 211).
AfterAbandon(i) == NextQuery(i)

\* The try block around the whole inner loop: the except clause ends it.
AfterResult_AbortOnError(branch, i, n) ==
    IF branch = "except" \/ i + 1 > n THEN "save" ELSE "scrape"

\* The position after the body of the inner for loop, whatever branch the
\* body took: its next result, or the code after the loop.
AfterResult(branch, i, n) == IF i + 1 > n THEN "save" ELSE "scrape"

\* A record of query_data.  Its snippet, scraped_at, entities and keywords
\* are functions of content, the clock and the tagger and are not carried.
Record(query, title, url, domain, content) ==
    [topic |-> query, title |-> title, url |-> url, domain |-> domain,
     content |-> content]

\* One attempt to write an output file.  q is the index of the query the
\* file belongs to, 0 for the files of the whole run; rows are the lines
\* written (for a table of records, the url column).
WriteOf(kind, file, q, rows, ok) ==
    [kind |-> kind, file |-> file, q |-> q, rows |-> rows, ok |-> ok]

UrlsOf(records) == [i \in 1..Len(records) |-> records[i].url]

\* The test inverted: the blacklist read as a list of the hosts to scrape.
Blacklisted_Inverted(domain, bl) == domain \notin bl

\* `domain in blacklist`
Blacklisted(domain, bl) == domain \in bl

\* extract_entities called outside the try block's reach: its error does not
\* keep the record from being appended.
Branch_AnnotationUnchecked(domain, bl, raised, content, annot) ==
    IF Blacklisted(domain, bl) THEN "skip"
    ELSE IF raised THEN "except"
    ELSE IF content # None /\ Truthy(content[1]) THEN "success"
    ELSE "no_content"

\* The branch of the loop body a result takes: the blacklist skip, the
\* except clause, the `if content:` branch or its else branch.
Branch(domain, bl, raised, content, annot) ==
    IF Blacklisted(domain, bl) THEN "skip"
    ELSE IF raised THEN "except"
    ELSE IF content # None /\ Truthy(content[1])
         THEN (IF annot = "raise" THEN "except" ELSE "success")
    ELSE "no_content"

Init ==
    /\ queries \in {[i \in 1..n |-> Query(i)] : n \in 1..MaxQueries}
    /\ blacklist \in SUBSET BlacklistLines
    /\ pc = "search"
    /\ qi = 1
    /\ search_results = <<>>
    /\ ri = 1
    /\ query_data = <<>>
    /\ failed_urls = <<>>
    /\ all_data = <<>>
    /\ domain_stats = <<>>
    /\ writes = <<>>
    /\ last = None
    /\ attempted = [h \in Hosts |-> 0]
    /\ first_seen = <<>>
    /\ searched = <<>>
    /\ qlog = <<>>
    /\ arg = <<>>
    /\ ret = <<>>

\* Lines 202-218: one query is handed to search_links.
Search ==
    /\ pc = "search"
    /\ searched' = Append(searched, queries[qi])
    /\ \E raised \in BOOLEAN, found \in SearchResults(SumOver(attempted, Hosts)) :
          /\ raised => found = <<>>
          /\ IF raised \/ found = <<>>
             THEN /\ search_results' = IF raised THEN search_results ELSE found
                  /\ qi' = qi + 1
                  /\ pc' = AfterAbandon(qi)
                  /\ qlog' = Append(qlog,
                        [q |-> qi, abandoned |-> TRUE, raised |-> raised,
                         results |-> 0, records |-> 0, failed |-> 0])
                  /\ UNCHANGED <<ri, query_data, failed_urls>>
             ELSE /\ search_results' = found
                  /\ query_data' = <<>>
                  /\ failed_urls' = <<>>
                  /\ ri' = 1
                  /\ pc' = "scrape"
                  /\ UNCHANGED <<qi, qlog>>
    /\ UNCHANGED <<queries, blacklist, all_data, domain_stats, writes, last,
                   attempted, first_seen, arg, ret>>

\* Lines 221-263: the body of the inner for loop, for one result.
ProcessResult ==
    /\ pc = "scrape"
    /\ LET result == search_results[ri]
           url == result.href
           title == result.title
           domain == Netloc(url)
       IN  \E answer \in ScrapeAnswers, annot \in AnnotateAnswers :
             LET skipped == Blacklisted(domain, blacklist)
                 raised == ~skipped /\ answer.raises
                 content == IF skipped \/ raised THEN None
                            ELSE scrape_content(answer.page,
                                                MIN_WORDS_FOR_CONTENT)
                 branch == Branch(domain, blacklist, raised, content, annot)
                 annotated == branch = "success"
                              \/ (branch = "except" /\ ~raised)
             IN  \* answers that are never consulted are not enumerated
                 /\ skipped => answer.page = NoPage /\ ~answer.raises
                 /\ ~annotated => annot = "ok"
                 /\ IF branch = "success"
                    THEN /\ query_data' = Append(query_data,
                               Record(queries[qi], title, url, domain,
                                      content[1]))
                         /\ domain_stats' = IncSuccess(domain_stats, domain)
                         /\ UNCHANGED failed_urls
                    ELSE /\ failed_urls' = Append(failed_urls, url)
                         /\ domain_stats' = IncFail(domain_stats, domain)
                         /\ UNCHANGED query_data
                 /\ last' = Some([q |-> qi, url |-> url, domain |-> domain,
                                  scraped |-> ~skipped, raised |-> raised,
                                  content |-> content,
                                  annot |-> IF annotated THEN annot
                                            ELSE "none"])
                 /\ attempted' = [attempted EXCEPT ![domain] = @ + 1]
                 /\ first_seen' =
                        IF \E i \in 1..Len(first_seen) : first_seen[i] = domain
                        THEN first_seen ELSE Append(first_seen, domain)
                 /\ pc' = AfterResult(branch, ri, Len(search_results))
    /\ ri' = ri + 1
    /\ UNCHANGED <<queries, blacklist, qi, search_results, all_data, writes,
                   searched, qlog, arg, ret>>

\* Lines 266-289: the per-query CSV, the failure log, all_data.extend.
SaveQuery ==
    /\ pc = "save"
    /\ LET safe_name == sanitize_filename(queries[qi])
           n == (IF query_data # <<>> THEN 1 ELSE 0)
                + (IF failed_urls # <<>> THEN 1 ELSE 0)
       IN  \E oks \in WriteOutcomes(writes, n) :
             LET csv == IF query_data # <<>>
                        THEN <<WriteOf("query_csv", safe_name \o <<".csv">>,
                                       qi, UrlsOf(query_data), oks[1])>>
                        ELSE <<>>
                 log == IF failed_urls # <<>>
                        THEN <<WriteOf("failed_log",
                                       safe_name \o <<"_failed.txt">>,
                                       qi, failed_urls, oks[n])>>
                        ELSE <<>>
             IN  writes' = writes \o csv \o log
    /\ all_data' = all_data \o query_data
    /\ qlog' = Append(qlog,
          [q |-> qi, abandoned |-> FALSE, raised |-> FALSE,
           results |-> Len(search_results), records |-> Len(query_data),
           failed |-> Len(failed_urls)])
    /\ qi' = qi + 1
    /\ pc' = NextQuery(qi)
    /\ last' = None
    /\ UNCHANGED <<queries, blacklist, search_results, ri, query_data,
                   failed_urls, domain_stats, attempted, first_seen,
                   searched, arg, ret>>

\* Lines 292-304: the merged CSV and the merged JSON share one try block.
SaveMerged ==
    /\ pc = "merged"
    /\ IF all_data # <<>>
       THEN \E csv_ok \in BOOLEAN :
              /\ <<csv_ok>> \in WriteOutcomes(writes, 1)
              /\ LET csv == WriteOf("merged_csv", <<"_all_queries_merged.csv">>,
                                    0, UrlsOf(all_data), csv_ok)
                 IN  IF csv_ok
                     THEN \E json_ok \in BOOLEAN :
                            /\ <<json_ok>> \in WriteOutcomes(writes, 1)
                            /\ writes' = writes \o <<csv,
                                  WriteOf("merged_json",
                                          <<"_all_queries_merged.json">>,
                                          0, UrlsOf(all_data), json_ok)>>
                     ELSE writes' = Append(writes, csv)
       ELSE UNCHANGED writes
    /\ pc' = "summary"
    /\ UNCHANGED <<queries, blacklist, qi, search_results, ri, query_data,
                   failed_urls, all_data, domain_stats, last, attempted,
                   first_seen, searched, qlog, arg, ret>>

\* Lines 306-323: the domain summary.
SaveSummary ==
    /\ pc = "summary"
    /\ \E ok \in BOOLEAN :
          /\ <<ok>> \in WriteOutcomes(writes, 1)
          /\ writes' = Append(writes,
                WriteOf("domain_log", <<"_domain_stats_summary.csv">>, 0,
                        SummaryRows(domain_stats), ok))
    /\ pc' = "done"
    /\ UNCHANGED <<queries, blacklist, qi, search_results, ri, query_data,
                   failed_urls, all_data, domain_stats, last, attempted,
                   first_seen, searched, qlog, arg, ret>>

Next == Search \/ ProcessResult \/ SaveQuery \/ SaveMerged \/ SaveSummary

Spec == Init /\ [][Next]_vars

-----------------------------------------------------------------------------
(* Calls of the pure functions on inputs drawn from bounded sets *)

\* main() is not running.
Idle ==
    /\ queries = <<>>
    /\ blacklist = {}
    /\ qi = 1
    /\ search_results = <<>>
    /\ ri = 1
    /\ query_data = <<>>
    /\ failed_urls = <<>>
    /\ all_data = <<>>
    /\ domain_stats = <<>>
    /\ writes = <<>>
    /\ last = None
    /\ attempted = [h \in Hosts |-> 0]
    /\ first_seen = <<>>
    /\ searched = <<>>
    /\ qlog = <<>>

TextChars == {"w", " "}
ShortTexts == SeqsUpTo(TextChars, MaxTextLen)

\* The pages scrape_content is called on.
ScrapeInputs ==
    {NoPage} \cup
    {Page(TRUE, e, ps) :
        e \in {None} \cup {Some(t) : t \in ShortTexts},
        ps \in SeqsUpTo(ShortTexts, MaxParas)}

InitScrape ==
    /\ Idle
    /\ pc = "call"
    /\ arg \in {[page |-> pg, min_words |-> m] :
                    pg \in ScrapeInputs, m \in 0..MaxMinWords}
    /\ ret = <<>>

\* scrape_content(url, min_words) is called and returns.
CallScrape ==
    /\ pc = "call"
    /\ ret' = <<scrape_content(arg.page, arg.min_words)>>
    /\ pc' = "returned"
    /\ UNCHANGED <<queries, blacklist, qi, search_results, ri, query_data,
                   failed_urls, all_data, domain_stats, writes, last,
                   attempted, first_seen, searched, qlog, arg>>

NextScrape == CallScrape

SpecScrape == InitScrape /\ [][NextScrape]_vars

\* The inputs of tests/test_main.py::test_sanitize_filename
TestNames ==
    { <<"A","I"," ","i","n"," ","h","e","a","l","t","h","c","a","r","e">>,
      <<"N","a","t","u","r","a","l"," ","L","a","n","g","u","a","g","e"," ",
        "P","r","o","c","e","s","s","i","n","g">>,
      <<"f","i","l","e"," ","w","i","t","h","!","@","#","$","%","^","&","*",
        "(",")","s","p","e","c","i","a","l"," ","c","h","a","r","s">>,
      <<"a","n","o","t","h","e","r","_","f","i","l","e","-","w","i","t","h",
        "_","d","a","s","h","e","s">> }

NameChars == {"a", "Z", "7", "_", " ", "-", "!"}

InitSanitize ==
    /\ Idle
    /\ pc = "call"
    /\ arg \in SeqsUpTo(NameChars, MaxNameLen) \cup TestNames
    /\ ret = <<>>

\* sanitize_filename(name) is called and returns.
CallSanitize ==
    /\ pc = "call"
    /\ ret' = <<sanitize_filename(arg)>>
    /\ pc' = "returned"
    /\ UNCHANGED <<queries, blacklist, qi, search_results, ri, query_data,
                   failed_urls, all_data, domain_stats, writes, last,
                   attempted, first_seen, searched, qlog, arg>>

\* sanitize_filename is called on what it returned.
CallSanitizeAgain ==
    /\ pc = "returned"
    /\ ret' = Append(ret, sanitize_filename(ret[1]))
    /\ pc' = "returned_again"
    /\ UNCHANGED <<queries, blacklist, qi, search_results, ri, query_data,
                   failed_urls, all_data, domain_stats, writes, last,
                   attempted, first_seen, searched, qlog, arg>>

NextSanitize == CallSanitize \/ CallSanitizeAgain

SpecSanitize == InitSanitize /\ [][NextSanitize]_vars

-----------------------------------------------------------------------------
(* Claims *)

\* The step taken is one iteration of the inner for loop.
ProcessStep == pc = "scrape"

\* The result the next iteration of the inner loop processes.
CurUrl == search_results[ri].href
CurDomain == Netloc(CurUrl)

Succ(stats, d) == StatOf(stats, d).success
Fail(stats, d) == StatOf(stats, d).fail

\* C1: for every domain, successes + failures is the number of results
\* processed whose host is that domain, at the end of the run and all along
\* it; a processed result adds exactly 1 to exactly one counter, of its own
\* domain, and no counter ever decreases.
C1_CountsPerDomain ==
    \A d \in Hosts :
        Succ(domain_stats, d) + Fail(domain_stats, d) = attempted[d]

C1_OneIncrement ==
    /\ \A d \in Hosts :
          /\ Succ(domain_stats', d) >= Succ(domain_stats, d)
          /\ Fail(domain_stats', d) >= Fail(domain_stats, d)
          /\ (~ProcessStep \/ d # CurDomain) =>
                /\ Succ(domain_stats', d) = Succ(domain_stats, d)
                /\ Fail(domain_stats', d) = Fail(domain_stats, d)
    /\ ProcessStep =>
          LET ds == Succ(domain_stats', CurDomain) - Succ(domain_stats, CurDomain)
              df == Fail(domain_stats', CurDomain) - Fail(domain_stats, CurDomain)
          IN  <<ds, df>> \in {<<1, 0>>, <<0, 1>>}

C1_StatsCountEveryResult ==
    [](C1_CountsPerDomain) /\ [][C1_OneIncrement]_vars

C1_Witness ==
    /\ pc = "done"
    /\ \E d \in Hosts :
          /\ Succ(domain_stats, d) >= 1
          /\ Fail(domain_stats, d) >= 1
    /\ \E d \in Hosts : d \in blacklist /\ Fail(domain_stats, d) >= 1

\* What the latest iteration of the inner loop met.
Met == last[1]
ContentPassed(m) ==
    m.content # None /\ WordCount(m.content[1]) >= MIN_WORDS_FOR_CONTENT

\* This iteration appends one record, of the result it processes.
RecordAppended ==
    /\ Len(query_data') = Len(query_data) + 1
    /\ SubSeq(query_data', 1, Len(query_data)) = query_data
    /\ query_data'[Len(query_data')].url = CurUrl
    /\ query_data'[Len(query_data')].domain = CurDomain
    /\ query_data'[Len(query_data')].topic = queries[qi]

\* This iteration records the result it processes as failed.
RecordedFailed ==
    /\ query_data' = query_data
    /\ failed_urls' = Append(failed_urls, CurUrl)
    /\ Fail(domain_stats', CurDomain) = Fail(domain_stats, CurDomain) + 1
    /\ Succ(domain_stats', CurDomain) = Succ(domain_stats, CurDomain)

\* C2 as stated: a record is appended if and only if the domain is not
\* blacklisted and scrape_content yields text of at least the threshold's
\* word count, also when entity annotation raises.
C2_RecordIffAccepted ==
    [][ProcessStep =>
          (RecordAppended <=>
              (CurDomain \notin blacklist /\ ContentPassed(Met')))]_vars

\* C2 amended: a record is appended if and only if the domain is not
\* blacklisted, scrape_content yields text of at least the threshold's word
\* count and entity annotation of that text does not raise; otherwise the
\* record list is left as it was.
C2_RecordIffAcceptedAndAnnotated ==
    [][ProcessStep =>
          IF /\ CurDomain \notin blacklist
             /\ ContentPassed(Met')
             /\ Met'.annot # "raise"
          THEN RecordAppended
          ELSE query_data' = query_data]_vars

C2_Witness ==
    /\ last # None
    /\ ContentPassed(Met)
    /\ Met.annot = "raise"
    /\ Met.domain \notin blacklist
    /\ query_data = <<>>
    /\ failed_urls = <<Met.url>>

\* C3: a result is skipped (no extraction attempt) if and only if its host
\* is a member of the blacklist; a skipped result produces no record, puts
\* its URL on the failure list and adds 1 to its domain's failures, leaving
\* the successes.  A first query whose only result is blacklisted ends with
\* no record, one failure-list entry, failures = 1 and successes = 0 for the
\* domain, and saving it attempts the failure log and no per-query CSV.
C3_SkipStep ==
    ProcessStep =>
        /\ (CurDomain \in blacklist) <=> ~Met'.scraped
        /\ (CurDomain \in blacklist) => RecordedFailed

C3_OnlyResultBlacklisted ==
    /\ pc = "save"
    /\ Len(search_results) = 1
    /\ Netloc(search_results[1].href) \in blacklist

C3_Scenario ==
    C3_OnlyResultBlacklisted =>
        /\ query_data = <<>>
        /\ failed_urls = <<search_results[1].href>>
        /\ qi = 1 =>
              /\ Fail(domain_stats, Netloc(search_results[1].href)) = 1
              /\ Succ(domain_stats, Netloc(search_results[1].href)) = 0

C3_ScenarioWrites ==
    C3_OnlyResultBlacklisted =>
        /\ Len(writes') = Len(writes) + 1
        /\ SubSeq(writes', 1, Len(writes)) = writes
        /\ writes'[Len(writes')].kind = "failed_log"
        /\ writes'[Len(writes')].q = qi
        /\ writes'[Len(writes')].rows = <<search_results[1].href>>

C3_BlacklistSkipIsFailure ==
    /\ [][C3_SkipStep]_vars
    /\ [](C3_Scenario)
    /\ [][C3_ScenarioWrites]_vars

C3_Witness ==
    /\ pc \in {"search", "merged"}
    /\ Len(qlog) = 1
    /\ Len(search_results) = 1
    /\ Netloc(search_results[1].href) \in blacklist
    /\ Len(writes) = 1
    /\ writes[1].kind = "failed_log"
    /\ Fail(domain_stats, Netloc(search_results[1].href)) = 1

\* The writes attempted for query number q, by kind.
WritesOf(kind, q) ==
    {i \in 1..Len(writes) : writes[i].kind = kind /\ writes[i].q = q}

AfterLoop == pc \in {"merged", "summary", "done"}

\* C4: a query whose search raises or returns nothing is abandoned: it
\* leaves the aggregate records and the domain statistics as they were and
\* writes no file, and the outer loop goes on with the next query; every
\* query is handed to the search exactly once, in input order.
C4_AbandonStep ==
    (pc = "search" /\ pc' # "scrape") =>
        /\ all_data' = all_data
        /\ domain_stats' = domain_stats
        /\ writes' = writes
        /\ qi' = qi + 1
        /\ pc' = IF qi < Len(queries) THEN "search" ELSE "merged"
        /\ qlog'[Len(qlog')].abandoned

C4_Abandoned ==
    /\ searched = SubSeq(queries, 1, Len(searched))
    /\ Len(searched) = IF pc = "search" THEN qi - 1
                       ELSE IF AfterLoop THEN Len(queries) ELSE qi
    /\ \A k \in 1..Len(qlog) :
          /\ qlog[k].q = k
          /\ qlog[k].abandoned =>
                WritesOf("query_csv", k) \cup WritesOf("failed_log", k) = {}

C4_AbandonedQueryIsSkipped ==
    [][C4_AbandonStep]_vars /\ [](C4_Abandoned)

C4_Witness ==
    /\ pc = "done"
    /\ Len(qlog) = 2
    /\ qlog[1].abandoned /\ qlog[1].raised
    /\ ~qlog[2].abandoned /\ qlog[2].records > 0
    /\ WritesOf("query_csv", 2) # {}

\* C5: when extraction returns nothing, or scraping or annotation raises,
\* the result's URL goes on the failure list, its domain's failures grow by
\* 1, no record is made, and the loop goes on: each iteration processes the
\* next result in the order returned, whatever happened to the earlier ones,
\* until all are processed.
C5_Failed(m) ==
    m.scraped /\ (m.raised \/ m.content = None \/ m.annot = "raise")

C5_FailureStep ==
    ProcessStep =>
        /\ Met'.url = CurUrl
        /\ C5_Failed(Met') => RecordedFailed
        /\ ri' = ri + 1
        /\ pc' = IF ri < Len(search_results) THEN "scrape" ELSE "save"
        /\ search_results' = search_results

C5_AllProcessed ==
    /\ pc = "scrape" =>
          /\ ri \in 1..Len(search_results)
          /\ Len(query_data) + Len(failed_urls) = ri - 1
    /\ pc = "save" =>
          /\ ri = Len(search_results) + 1
          /\ Len(query_data) + Len(failed_urls) = Len(search_results)

C5_ResultFailureIsLocal ==
    [][C5_FailureStep]_vars /\ [](C5_AllProcessed)

C5_Witness ==
    /\ pc = "save"
    /\ Len(search_results) = 2
    /\ Len(failed_urls) = 1
    /\ failed_urls[1] = search_results[1].href
    /\ Len(query_data) = 1
    /\ query_data[1].url = search_results[2].href
    /\ Netloc(search_results[1].href) \notin blacklist

\* What the run had to write, given what it produced.
Attempted(kind, q) == WritesOf(kind, q) # {}

\* C6: a failed write skips only itself: at the end of the run every planned
\* write has been attempted (per query with records its CSV, per query with
\* failures its failure log, with any record the merged CSV and the merged
\* JSON, and the domain summary) and every query has been processed.
C6_EveryPlannedWriteAttempted ==
    pc = "done" =>
        /\ Len(qlog) = Len(queries)
        /\ \A k \in 1..Len(qlog) :
              /\ qlog[k].records > 0 => Attempted("query_csv", k)
              /\ qlog[k].failed > 0 => Attempted("failed_log", k)
        /\ all_data # <<>> =>
              Attempted("merged_csv", 0) /\ Attempted("merged_json", 0)
        /\ Attempted("domain_log", 0)

\* C7: no empty file: per processed query the CSV is attempted if and only
\* if it has a record and the failure log if and only if it has a failed
\* URL; the merged CSV and the merged JSON are attempted, after the last
\* query, if and only if any record exists.
C7_WritesIffNonEmpty ==
    /\ \A k \in 1..Len(qlog) :
          ~qlog[k].abandoned =>
              /\ Attempted("query_csv", k) <=> qlog[k].records > 0
              /\ Attempted("failed_log", k) <=> qlog[k].failed > 0
    /\ (Attempted("merged_csv", 0) \/ Attempted("merged_json", 0)) =>
          AfterLoop /\ pc # "merged"
    /\ pc \in {"summary", "done"} =>
          /\ Attempted("merged_csv", 0) <=> all_data # <<>>
          /\ Attempted("merged_json", 0) <=> all_data # <<>>

\* C8: the domain summary is attempted on every run; its rows are the
\* domains touched, each once, with their final counts, ordered by successes
\* descending, domains of equal successes in first-encounter order.
PositionIn(seq, x) == CHOOSE i \in 1..Len(seq) : seq[i] = x

C8_SummarySortedStable ==
    pc = "done" =>
        /\ Cardinality(WritesOf("domain_log", 0)) = 1
        /\ writes[Len(writes)].kind = "domain_log"
        /\ LET rows == writes[Len(writes)].rows
           IN  /\ Len(rows) = Len(first_seen)
               /\ {rows[i].domain : i \in 1..Len(rows)}
                     = {first_seen[i] : i \in 1..Len(first_seen)}
               /\ {first_seen[i] : i \in 1..Len(first_seen)}
                     = {d \in Hosts : attempted[d] > 0}
               /\ \A i \in 1..Len(rows) :
                     /\ rows[i].successes = Succ(domain_stats, rows[i].domain)
                     /\ rows[i].failures = Fail(domain_stats, rows[i].domain)
               /\ \A i, j \in 1..Len(rows) :
                     i < j =>
                        /\ rows[i].successes >= rows[j].successes
                        /\ rows[i].successes = rows[j].successes =>
                              PositionIn(first_seen, rows[i].domain)
                                 < PositionIn(first_seen, rows[j].domain)

C8_WitnessNoRecords ==
    /\ pc = "done"
    /\ all_data = <<>>
    /\ Len(first_seen) = Cardinality(Hosts)
    /\ \E i \in 1..Len(writes) :
          /\ writes[i].kind = "domain_log"
          /\ Len(writes[i].rows) = Cardinality(Hosts)

C8_WitnessReordered ==
    /\ pc = "done"
    /\ Len(first_seen) >= 2
    /\ writes[Len(writes)].rows[1].domain # first_seen[1]

\* The call of scrape_content has returned.
Scraped == pc = "returned"
Returned == ret[1]

\* Structured extraction yielded a text of at least min_words words.
StructuredPasses ==
    /\ arg.page.extracted # None
    /\ WordCount(arg.page.extracted[1]) >= arg.min_words

\* The newline-joined text of the non-empty paragraphs.
Joined == JoinLines(SelectSeq(arg.page.paragraphs, LAMBDA t : t # <<>>))
FallbackPasses == WordCount(Joined) >= arg.min_words

\* C9 as stated: nothing when the fetch yields nothing; else the structured
\* text when its word count is at least min_words; else the joined paragraph
\* text when its word count is at least min_words; else nothing.
C9_FallbackChain ==
    Scraped =>
        Returned = IF ~arg.page.downloaded THEN None
                   ELSE IF StructuredPasses THEN Some(arg.page.extracted[1])
                   ELSE IF FallbackPasses THEN Some(Joined)
                   ELSE None

\* C9 amended: a stage passes only with a non-empty text: nothing when the
\* fetch yields nothing; else the structured text when it is non-empty and
\* its word count is at least min_words; else the joined paragraph text when
\* it is non-empty and its word count is at least min_words; else nothing.
\* Texts below the threshold at both stages give what a failed fetch gives,
\* and a passing structured text is returned whatever the fallback holds.
C9_FallbackChainNonEmpty ==
    Scraped =>
        /\ Returned =
              IF ~arg.page.downloaded THEN None
              ELSE IF StructuredPasses /\ arg.page.extracted[1] # <<>>
                   THEN Some(arg.page.extracted[1])
              ELSE IF FallbackPasses /\ Joined # <<>> THEN Some(Joined)
              ELSE None
        /\ (~StructuredPasses /\ ~FallbackPasses) =>
              Returned = scrape_content(Page(TRUE, None, <<>>), arg.min_words)

C9_Witness ==
    /\ Scraped
    /\ arg.min_words = 2
    /\ arg.page.extracted = Some(<<"w">>)
    /\ arg.page.paragraphs = << <<"w">>, <<"w">> >>
    /\ Returned = Some(<<"w", "\n", "w">>)

\* The characters of the class [A-Za-z0-9_].
ClassChars ==
    {"a","b","c","d","e","f","g","h","i","j","k","l","m",
     "n","o","p","q","r","s","t","u","v","w","x","y","z",
     "A","B","C","D","E","F","G","H","I","J","K","L","M",
     "N","O","P","Q","R","S","T","U","V","W","X","Y","Z",
     "0","1","2","3","4","5","6","7","8","9","_"}

Name_AI ==
    <<"A","I"," ","i","n"," ","h","e","a","l","t","h","c","a","r","e">>
Name_Special ==
    <<"f","i","l","e"," ","w","i","t","h","!","@","#","$","%","^","&","*",
      "(",")","s","p","e","c","i","a","l"," ","c","h","a","r","s">>
Name_Dashes ==
    <<"a","n","o","t","h","e","r","_","f","i","l","e","-","w","i","t","h",
      "_","d","a","s","h","e","s">>

Asserted_AI ==
    <<"A","I","_","i","n","_","h","e","a","l","t","h","c","a","r","e">>
Asserted_Special ==
    <<"f","i","l","e","_","w","i","t","h","_","s","p","e","c","i","a","l",
      "_","c","h","a","r","s">>
Asserted_Dashes ==
    <<"a","n","o","t","h","e","r","_","f","i","l","e","_","w","i","t","h",
      "_","d","a","s","h","e","s">>

\* C11: sanitize_filename("file with!@#$%^&*()special chars") returns
\* "file_with_special_chars", sanitize_filename("AI in healthcare") returns
\* "AI_in_healthcare" and sanitize_filename("another_file-with_dashes")
\* returns "another_file_with_dashes".
C11_TestStrings ==
    pc = "returned" =>
        /\ arg = Name_Special => ret[1] = Asserted_Special
        /\ arg = Name_AI => ret[1] = Asserted_AI
        /\ arg = Name_Dashes => ret[1] = Asserted_Dashes

\* The two strings of C11 without a run of disallowed characters.
C11_RunFreeStrings ==
    pc = "returned" =>
        /\ arg = Name_AI => ret[1] = Asserted_AI
        /\ arg = Name_Dashes => ret[1] = Asserted_Dashes

\* The URLs search_links returned for the current query, in order.
ResultUrls == [i \in 1..Len(search_results) |-> search_results[i].href]

\* The members of seq at the positions S, in the order of seq.
Pick(seq, S) ==
    LET Nth(k) == CHOOSE i \in S : Cardinality({j \in S : j <= i}) = k
    IN  [k \in 1..Cardinality(S) |-> seq[Nth(k)]]

\* The inner loop of a query has started and the query is not yet saved.
InQuery == pc \in {"scrape", "save"}

TotalSuccesses == SumOver([d \in Hosts |-> Succ(domain_stats, d)], Hosts)
TotalFailures == SumOver([d \in Hosts |-> Fail(domain_stats, d)], Hosts)
LoggedFailures ==
    SumOver([k \in 1..Len(qlog) |-> qlog[k].failed], 1..Len(qlog))

\* The index of a query of the command line.
QueryIndex(query) == CHOOSE k \in 1..Len(queries) : queries[k] = query

\* After the inner loop the results split into the records and the failure
\* list: each result is in exactly one of them, both in result order.
C12_ResultsSplit ==
    pc = "save" =>
        /\ Len(query_data) + Len(failed_urls) = Len(search_results)
        /\ \E S \in SUBSET (1..Len(search_results)) :
              /\ UrlsOf(query_data) = Pick(ResultUrls, S)
              /\ failed_urls =
                    Pick(ResultUrls, (1..Len(search_results)) \ S)
        /\ \A i \in 1..Len(query_data) : query_data[i].topic = queries[qi]

\* The counters agree with the lists, all along the run and so at its end.
C12_TotalsAgree ==
    /\ TotalSuccesses
          = Len(all_data) + (IF InQuery THEN Len(query_data) ELSE 0)
    /\ TotalFailures
          = LoggedFailures + (IF InQuery THEN Len(failed_urls) ELSE 0)
    /\ pc = "done" =>
          /\ TotalSuccesses = Len(all_data)
          /\ TotalFailures = LoggedFailures

\* all_data holds the records of the queries in query order.
C12_QueryOrder ==
    /\ \A i, j \in 1..Len(all_data) :
          i < j =>
             QueryIndex(all_data[i].topic) <= QueryIndex(all_data[j].topic)
    /\ \A k \in 1..Len(qlog) :
          Cardinality({i \in 1..Len(all_data) :
                          all_data[i].topic = queries[k]}) = qlog[k].records

\* all_data changes only when a query is saved, by that query's records, in
\* their order, put after what it holds.
C12_AppendOnly ==
    all_data' = IF pc = "save" THEN all_data \o query_data ELSE all_data

\* C12: after the result loop of a query its records and its failure list
\* split its search results, no result in both; the successes over all
\* domains count the records and the failures count the failure-list entries
\* of all queries; the aggregate list holds the queries' records in query
\* order then result order and is only ever extended.
C12_ListsAndCountersAgree ==
    /\ [](C12_ResultsSplit)
    /\ [](C12_TotalsAgree)
    /\ [](C12_QueryOrder)
    /\ [][C12_AppendOnly]_vars

C12_Witness ==
    /\ pc = "done"
    /\ Len(qlog) = 2
    /\ qlog[1].records = 1 /\ qlog[1].failed = 1
    /\ qlog[2].records = 1
    /\ Len(all_data) = 2
    /\ all_data[1].topic = queries[1]
    /\ all_data[2].topic = queries[2]
    /\ TotalFailures = 1

=============================================================================
